---- MODULE Spec2Model ----
(***************************************************************************)
(* Model of the authorization layer of stacks-transactions-js:             *)
(*   src/src/authorization.ts  MessageSignature, SpendingCondition,        *)
(*                             SingleSigSpendingCondition, Authorization   *)
(*   src/src/signer.ts         TransactionSigner                           *)
(*                                                                         *)
(* Hex strings are sequences of characters: 0..15 are the hex digits, and  *)
(* NonHex stands for any character that is not a hex digit.  A JavaScript  *)
(* value that is `undefined` where a string is expected is UndefinedStr.   *)
(* A BigInt is a sequence of 16-bit limbs, most significant first, without *)
(* leading zero limbs (<<>> is 0n).                                        *)
(***************************************************************************)
EXTENDS Integers, Sequences, FiniteSets, TLC

\* ------------------------------------------------------------------------
\* State
\* ------------------------------------------------------------------------
VARIABLES
  cond,           \* transaction.auth.spendingCondition
  authType,       \* transaction.auth.authType
  sigHash,        \* TransactionSigner.sigHash
  originDone,     \* TransactionSigner.originDone
  checkOversign,  \* TransactionSigner.checkOversign
  checkOverlap,   \* TransactionSigner.checkOverlap
  signs,          \* number of signOrigin calls that returned
  last            \* the last call, what it was given and what it did

vars == <<cond, authType, sigHash, originDone, checkOversign, checkOverlap, signs, last>>

\* ------------------------------------------------------------------------
\* Bounds of the model
\* ------------------------------------------------------------------------
\* number of successful signing steps followed in one session
MaxSigns == 2

\* ------------------------------------------------------------------------
\* Characters and strings
\* ------------------------------------------------------------------------
NonHex == 16
Undef == 17
UndefinedStr == <<Undef>>

\* the characters of the string "undefined": only d, e and f are hex digits
UndefinedChars == <<NonHex, NonHex, 13, 14, 15, NonHex, NonHex, 14, 13>>

\* what string concatenation makes of a value
Str(v) == IF v = UndefinedStr THEN UndefinedChars ELSE v

Rep(n, c) == [i \in 1..n |-> c]

padStart(s, n) == IF Len(s) >= n THEN s ELSE Rep(n - Len(s), 0) \o s

\* the pairs of s that are not two hex digits
BadPairs(s) == { i \in 1..(Len(s) \div 2) : s[2 * i - 1] > 15 \/ s[2 * i] > 15 }

\* Buffer.from(s, 'hex').byteLength
\* decoding stops at the first pair that is not hex; an odd last character is dropped
HexByteLength(s) ==
  IF BadPairs(s) = {} THEN Len(s) \div 2
  ELSE (CHOOSE i \in BadPairs(s) : \A j \in BadPairs(s) : i <= j) - 1

\* ------------------------------------------------------------------------
\* BigInt <-> hex string
\* ------------------------------------------------------------------------
LimbDigits(l) == << (l \div 4096) % 16, (l \div 256) % 16, (l \div 16) % 16, l % 16 >>

RECURSIVE LimbsToDigits(_)
LimbsToDigits(ls) ==
  IF ls = <<>> THEN <<>> ELSE LimbDigits(Head(ls)) \o LimbsToDigits(Tail(ls))

RECURSIVE StripZeros(_)
StripZeros(s) ==
  IF s = <<>> THEN <<>>
  ELSE IF Head(s) = 0 THEN StripZeros(Tail(s)) ELSE s

\* BigInt.prototype.toString(16)
toString16(n) ==
  LET d == StripZeros(LimbsToDigits(n)) IN IF d = <<>> THEN <<0>> ELSE d

bigIntToHexString(n, lengthBytes) == padStart(toString16(n), lengthBytes * 2)

RECURSIVE DigitsToLimbs(_)
DigitsToLimbs(s) ==
  IF s = <<>> THEN <<>>
  ELSE << s[1] * 4096 + s[2] * 256 + s[3] * 16 + s[4] >>
         \o DigitsToLimbs(SubSeq(s, 5, Len(s)))

hexStringToBigInt(s) ==
  StripZeros(DigitsToLimbs(Rep((4 - (Len(s) % 4)) % 4, 0) \o s))

\* ------------------------------------------------------------------------
\* Program constants
\* ------------------------------------------------------------------------
RECOVERABLE_ECDSA_SIG_LENGTH_BYTES == 65

AuthType_Standard == <<0, 4>>
AuthType_Sponsored == <<0, 5>>
AuthTypes == {AuthType_Standard, AuthType_Sponsored}

SerializeP2PKH == <<0, 0>>
SerializeP2SH == <<0, 1>>
SerializeP2WPKH == <<0, 2>>
SerializeP2WSH == <<0, 3>>
AddressHashModes == {SerializeP2PKH, SerializeP2SH, SerializeP2WPKH, SerializeP2WSH}

PubKeyEncoding_Compressed == <<0, 0>>
PubKeyEncoding_Uncompressed == <<0, 1>>

\* a field that was never assigned a number
Undefined == -1

\* JavaScript's >= on numbers: a comparison with undefined is false
JsGe(a, b) == a # Undefined /\ b # Undefined /\ a >= b

\* ------------------------------------------------------------------------
\* External primitives: hash, keys, signing, address derivation
\* ------------------------------------------------------------------------
\* the weighted value of character i of s, 0 past the end
MixAt(s, i) == IF i <= Len(s) THEN ((i * i + 3 * i + 1) % 251) * (s[i] + 1) ELSE 0

RECURSIVE MixRange(_, _, _)
\* a position-weighted checksum of s[lo..hi], eight characters at a time
MixRange(s, lo, hi) ==
  IF lo > hi THEN 0
  ELSE (MixAt(s, lo) + MixAt(s, lo + 1) + MixAt(s, lo + 2) + MixAt(s, lo + 3)
        + MixAt(s, lo + 4) + MixAt(s, lo + 5) + MixAt(s, lo + 6) + MixAt(s, lo + 7)
        + MixRange(s, lo + 8, hi)) % 65521

Mix(s, i, acc) == (MixRange(s, i, Len(s)) + acc * 719) % 65521

Spread(d, n) ==
  [j \in 1..n |->
     (CASE (j - 1) % 4 = 0 -> (d \div 4096) % 16
        [] (j - 1) % 4 = 1 -> (d \div 256) % 16
        [] (j - 1) % 4 = 2 -> (d \div 16) % 16
        [] OTHER -> d % 16)]

\* the 32-byte hash primitive, as a hex string of 64 characters
sha512_256(s) == Spread(Mix(s, 1, 7 + Len(s)), 64)

\* private keys: key 1 has a compressed public key, key 2 an uncompressed one
PrivateKeys == {1, 2}
compressed(key) == key = 1

encodingOf(key) ==
  IF compressed(key) THEN PubKeyEncoding_Compressed ELSE PubKeyEncoding_Uncompressed

\* privateKey.sign(hash): a recoverable signature of 65 bytes, never all zero
sign(key, hash) ==
  <<0, key>> \o Spread(Mix(hash, 1, 100 + key), 2 * RECOVERABLE_ECDSA_SIG_LENGTH_BYTES - 2)

\* Address.fromPublicKeys(0, mode, 1, [pubKey]).data: 20 bytes
fromPublicKeys(mode, key) == Spread(Mix(mode, 1, 200 + key), 40)

\* ------------------------------------------------------------------------
\* Results of calls: err is "none" when the call returned
\* ------------------------------------------------------------------------
ErrLength == "Invalid signature hash length"
ErrSignature == "Invalid signature"
ErrOverlap == "Cannot sign origin after sponsor key"
ErrOversign == "Origin would have too many signatures"
ErrUnimplemented == "Unimplemented"
ErrTypeError == "TypeError: not a function"

\* ------------------------------------------------------------------------
\* MessageSignature
\* ------------------------------------------------------------------------
\* MessageSignature.empty().signature: 65 zero bytes
MessageSignature_empty == Rep(2 * RECOVERABLE_ECDSA_SIG_LENGTH_BYTES, 0)

\* new MessageSignature(signature): only a truthy argument is measured
MessageSignature_new(signature) ==
  IF signature # UndefinedStr /\ signature # <<>>
       /\ HexByteLength(signature) # RECOVERABLE_ECDSA_SIG_LENGTH_BYTES
  THEN [err |-> ErrSignature, signature |-> UndefinedStr]
  ELSE [err |-> "none", signature |-> signature]

\* ------------------------------------------------------------------------
\* SpendingCondition and SingleSigSpendingCondition
\* ------------------------------------------------------------------------
\* new SpendingCondition(addressHashMode, pubKey, nonce, feeRate)
SpendingCondition_new(addressHashMode, pubKey, nonce, feeRate) ==
  [ class |-> "SpendingCondition",
    addressHashMode |-> addressHashMode,
    signerAddress |-> fromPublicKeys(addressHashMode, pubKey),
    nonce |-> nonce,
    feeRate |-> feeRate,
    pubKeyEncoding |-> encodingOf(pubKey),
    signature |-> MessageSignature_empty,
    signaturesRequired |-> Undefined ]

\* new SingleSigSpendingCondition(addressHashMode, pubKey, nonce, feeRate)
SingleSigSpendingCondition_new(addressHashMode, pubKey, nonce, feeRate) ==
  [ SpendingCondition_new(addressHashMode, pubKey, nonce, feeRate)
      EXCEPT !.class = "SingleSigSpendingCondition", !.signaturesRequired = 1 ]

singleSig(c) ==
  c.addressHashMode = SerializeP2PKH \/ c.addressHashMode = SerializeP2WPKH

\* numSignatures() without the override of SingleSigSpendingCondition
numSignatures_noOverride(c) == 0

\* numSignatures(), dispatched on the class of the object
numSignatures(c) ==
  IF c.class = "SingleSigSpendingCondition"
  THEN (IF Str(c.signature) = MessageSignature_empty THEN 0 ELSE 1)
  ELSE 0

\* ------------------------------------------------------------------------
\* SigHash chain
\* ------------------------------------------------------------------------
PreSignMaterial(curSigHash, authFlag, feeRate, nonce) ==
  Str(curSigHash) \o authFlag \o bigIntToHexString(feeRate, 8) \o bigIntToHexString(nonce, 8)

makeSigHashPreSign(curSigHash, authFlag, feeRate, nonce) ==
  LET hashLength == 32 + 1 + 8 + 8
      sigHashInput == PreSignMaterial(curSigHash, authFlag, feeRate, nonce)
  IN IF HexByteLength(sigHashInput) > hashLength
     THEN [err |-> ErrLength, hash |-> <<>>]
     ELSE [err |-> "none", hash |-> sha512_256(sigHashInput)]

PostSignMaterial(curSigHash, publicKey, signature) ==
  Str(curSigHash) \o encodingOf(publicKey) \o Str(signature)

makeSigHashPostSign(curSigHash, publicKey, signature) ==
  LET hashLength == 32 + 1 + RECOVERABLE_ECDSA_SIG_LENGTH_BYTES
      sigHashInput == PostSignMaterial(curSigHash, publicKey, signature)
  IN IF HexByteLength(sigHashInput) > hashLength
     THEN [err |-> ErrLength, hash |-> <<>>]
     ELSE [err |-> "none", hash |-> sha512_256(sigHashInput)]

\* the return value of nextSignature, from the signature and the post-sign hash
nextSignatureReturn(signature, nextSigHash) ==
  IF nextSigHash.err # "none"
  THEN [err |-> nextSigHash.err, nextSig |-> <<>>, nextSigHash |-> <<>>]
  ELSE [err |-> "none", nextSig |-> signature, nextSigHash |-> nextSigHash.hash]

\* nextSignature hashing the session's sigHash instead of the pre-sign hash
nextSignaturePost_sessionHash(sigHashPreSign, privateKey, signature) ==
  nextSignatureReturn(signature, makeSigHashPostSign(sigHash, privateKey, signature))

\* nextSignature once the signature is made
nextSignaturePost(sigHashPreSign, privateKey, signature) ==
  nextSignatureReturn(signature, makeSigHashPostSign(sigHashPreSign, privateKey, signature))

\* nextSignature once the pre-sign hash is made (a throw of it ends the call)
nextSignatureSign(sigHashPreSign, privateKey) ==
  IF sigHashPreSign.err # "none"
  THEN [err |-> sigHashPreSign.err, nextSig |-> <<>>, nextSigHash |-> <<>>]
  ELSE nextSignaturePost(sigHashPreSign.hash, privateKey, sign(privateKey, sigHashPreSign.hash))

nextSignature(curSigHash, authFlag, feeRate, nonce, privateKey) ==
  nextSignatureSign(makeSigHashPreSign(curSigHash, authFlag, feeRate, nonce), privateKey)

\* ------------------------------------------------------------------------
\* Wire codec
\* ------------------------------------------------------------------------
\* Buffer.from(s, 'hex').toString('hex'): what appendHexString keeps of s
HexDecode(s) == SubSeq(s, 1, 2 * HexByteLength(s))

\* MessageSignature.serialize()
MessageSignature_serialize(signature) == HexDecode(Str(signature))

\* serialize writing feeRate before nonce, the order of the pre-sign material
serialize_feeRateFirst(c) ==
  HexDecode(c.addressHashMode)
  \o HexDecode(c.signerAddress)
  \o HexDecode(bigIntToHexString(c.feeRate, 8))
  \o HexDecode(bigIntToHexString(c.nonce, 8))
  \o (IF c.addressHashMode = SerializeP2PKH \/ c.addressHashMode = SerializeP2WPKH
      THEN HexDecode(Str(c.pubKeyEncoding)) \o MessageSignature_serialize(c.signature)
      ELSE <<>>)

\* SpendingCondition.serialize(), as the hex string of the buffer
serialize(c) ==
  HexDecode(c.addressHashMode)
  \o HexDecode(c.signerAddress)
  \o HexDecode(bigIntToHexString(c.nonce, 8))
  \o HexDecode(bigIntToHexString(c.feeRate, 8))
  \o (IF c.addressHashMode = SerializeP2PKH \/ c.addressHashMode = SerializeP2WPKH
      THEN HexDecode(Str(c.pubKeyEncoding)) \o MessageSignature_serialize(c.signature)
      ELSE <<>>)

\* bufferReader.read(n).toString('hex') at byte offset index
read(buffer, index, n) == SubSeq(buffer, 2 * index + 1, 2 * (index + n))

\* SpendingCondition.deserialize(bufferReader) on a reader at offset 0: the
\* object is a new SpendingCondition() whose fields the reads overwrite;
\* index is the offset of the reader afterwards
deserialize(buffer) ==
  LET mode == read(buffer, 0, 1)
      single == mode = SerializeP2PKH \/ mode = SerializeP2WPKH
  IN [ err |-> "none",
       index |-> IF single THEN 38 + RECOVERABLE_ECDSA_SIG_LENGTH_BYTES ELSE 37,
       cond |-> [ class |-> "SpendingCondition",
                  addressHashMode |-> mode,
                  signerAddress |-> read(buffer, 1, 20),
                  nonce |-> hexStringToBigInt(read(buffer, 21, 8)),
                  feeRate |-> hexStringToBigInt(read(buffer, 29, 8)),
                  pubKeyEncoding |-> IF single THEN read(buffer, 37, 1) ELSE UndefinedStr,
                  signature |-> IF single
                                THEN read(buffer, 38, RECOVERABLE_ECDSA_SIG_LENGTH_BYTES)
                                ELSE MessageSignature_empty,
                  signaturesRequired |-> Undefined ] ]

\* Authorization.serialize(): the tag, then the condition of a Standard
\* authorization; the Sponsored case appends nothing
Authorization_serialize(auth, c) ==
  HexDecode(auth) \o (IF auth = AuthType_Standard THEN serialize(c) ELSE <<>>)

\* Authorization.deserialize(bufferReader) on a new Authorization(): the
\* spendingCondition is assigned for the Standard tag only
Authorization_deserialize(buffer) ==
  LET tag == read(buffer, 0, 1)
  IN IF tag = AuthType_Standard
     THEN [ err |-> deserialize(SubSeq(buffer, 3, Len(buffer))).err, authType |-> tag,
            hasCondition |-> TRUE,
            index |-> 1 + deserialize(SubSeq(buffer, 3, Len(buffer))).index ]
     ELSE [ err |-> "none", authType |-> tag, hasCondition |-> FALSE, index |-> 1 ]

\* ------------------------------------------------------------------------
\* StacksTransaction: the part the signing session calls
\* ------------------------------------------------------------------------
\* transaction.signBegin(): the hash of the transaction before authorization
signBegin(auth, c) == sha512_256(auth \o c.addressHashMode \o c.signerAddress)

\* the record of one call of SpendingCondition.nextSignature
NoStep ==
  [ called |-> FALSE, curSigHash |-> <<>>, authType |-> <<>>, feeRate |-> <<>>,
    nonce |-> <<>>, key |-> 0, err |-> "none", nextSig |-> <<>>, nextSigHash |-> <<>> ]

StepRecord(curSigHash, auth, feeRate, nonce, key, r) ==
  [ called |-> TRUE, curSigHash |-> curSigHash, authType |-> auth,
    feeRate |-> feeRate, nonce |-> nonce, key |-> key,
    err |-> r.err, nextSig |-> r.nextSig, nextSigHash |-> r.nextSigHash ]

StepOf(curSigHash, auth, feeRate, nonce, key) ==
  StepRecord(curSigHash, auth, feeRate, nonce, key,
             nextSignature(curSigHash, auth, feeRate, nonce, key))

\* transaction.signNextOrigin(sigHash, privateKey): one chain step on the
\* origin condition; the signature fills the slot of a single-key condition
signAndAppend(c, st) ==
  IF st.err # "none"
  THEN [err |-> st.err, cond |-> c, hash |-> <<>>, step |-> st]
  ELSE IF singleSig(c)
  THEN [err |-> "none", cond |-> [c EXCEPT !.signature = st.nextSig],
        hash |-> st.nextSigHash, step |-> st]
  ELSE [err |-> ErrUnimplemented, cond |-> c, hash |-> <<>>, step |-> st]

signNextOrigin(auth, c, curSigHash, privateKey) ==
  signAndAppend(c, StepOf(curSigHash, auth, c.feeRate, c.nonce, privateKey))

\* ------------------------------------------------------------------------
\* Construction
\* ------------------------------------------------------------------------
\* BigInt values used for nonce and feeRate
Big0 == <<>>
Big180 == <<180>>
BigMaxU64 == <<65535, 65535, 65535, 65535>>
BigPow64 == <<1, 0, 0, 0, 0>>

NonceFeePairs == { <<Big0, Big180>>, <<BigMaxU64, BigMaxU64>>, <<BigPow64, BigPow64>> }

ConditionClasses == {"SpendingCondition", "SingleSigSpendingCondition"}

NewCondition(class, mode, pubKey, nonce, feeRate) ==
  IF class = "SingleSigSpendingCondition"
  THEN SingleSigSpendingCondition_new(mode, pubKey, nonce, feeRate)
  ELSE SpendingCondition_new(mode, pubKey, nonce, feeRate)

Snapshot ==
  [ sigHash |-> sigHash, originDone |-> originDone, checkOversign |-> checkOversign,
    checkOverlap |-> checkOverlap, numSigs |-> numSignatures(cond),
    signature |-> cond.signature ]

NoCall == [ op |-> "new", err |-> "none", pre |-> [ sigHash |-> <<>>, originDone |-> FALSE,
            checkOversign |-> TRUE, checkOverlap |-> TRUE, numSigs |-> 0, signature |-> <<>> ],
            step |-> NoStep, prev |-> NoStep ]

\* new TransactionSigner(transaction), over a freshly built transaction
Init ==
  \E class \in ConditionClasses, mode \in AddressHashModes, pubKey \in PrivateKeys,
     nf \in NonceFeePairs, auth \in AuthTypes :
       /\ cond = NewCondition(class, mode, pubKey, nf[1], nf[2])
       /\ authType = auth
       /\ sigHash = signBegin(auth, cond)
       /\ originDone = FALSE
       /\ checkOversign = TRUE
       /\ checkOverlap = TRUE
       /\ signs = 0
       /\ last = NoCall

\* ------------------------------------------------------------------------
\* TransactionSigner
\* ------------------------------------------------------------------------
\* signOrigin without the assignment of line 41
signOriginStep_keepHash(r) ==
  IF r.err # "none"
  THEN [err |-> r.err, cond |-> cond, sigHash |-> sigHash, step |-> r.step]
  ELSE [err |-> "none", cond |-> r.cond, sigHash |-> sigHash, step |-> r.step]

\* signOrigin assigning sigHash whether or not the step returned
signOriginStep_assignOnError(r) ==
  [err |-> r.err, cond |-> IF r.err # "none" THEN cond ELSE r.cond,
   sigHash |-> r.hash, step |-> r.step]

\* lines 40-41 of signOrigin: the step, then the assignment of sigHash
signOriginStep(r) ==
  IF r.err # "none"
  THEN [err |-> r.err, cond |-> cond, sigHash |-> sigHash, step |-> r.step]
  ELSE [err |-> "none", cond |-> r.cond, sigHash |-> r.hash, step |-> r.step]

\* signOrigin with the oversign guard tested before the overlap guard
signOriginResult_oversignFirst(privateKey) ==
  IF checkOversign /\ JsGe(numSignatures(cond), cond.signaturesRequired)
  THEN [err |-> ErrOversign, cond |-> cond, sigHash |-> sigHash, step |-> NoStep]
  ELSE IF checkOverlap /\ originDone
  THEN [err |-> ErrOverlap, cond |-> cond, sigHash |-> sigHash, step |-> NoStep]
  ELSE signOriginStep(signNextOrigin(authType, cond, sigHash, privateKey))

\* signOrigin with the oversign guard nested inside the overlap test
signOriginResult_nestedGuards(privateKey) ==
  IF checkOverlap
  THEN (IF originDone
        THEN [err |-> ErrOverlap, cond |-> cond, sigHash |-> sigHash, step |-> NoStep]
        ELSE IF checkOversign /\ JsGe(numSignatures(cond), cond.signaturesRequired)
        THEN [err |-> ErrOversign, cond |-> cond, sigHash |-> sigHash, step |-> NoStep]
        ELSE signOriginStep(signNextOrigin(authType, cond, sigHash, privateKey)))
  ELSE signOriginStep(signNextOrigin(authType, cond, sigHash, privateKey))

\* what signOrigin(privateKey) does in the current state
signOriginResult(privateKey) ==
  IF checkOverlap /\ originDone
  THEN [err |-> ErrOverlap, cond |-> cond, sigHash |-> sigHash, step |-> NoStep]
  ELSE IF checkOversign /\ JsGe(numSignatures(cond), cond.signaturesRequired)
  THEN [err |-> ErrOversign, cond |-> cond, sigHash |-> sigHash, step |-> NoStep]
  ELSE signOriginStep(signNextOrigin(authType, cond, sigHash, privateKey))

signOriginApply(r) ==
  /\ cond' = r.cond
  /\ sigHash' = r.sigHash
  /\ signs' = IF r.err = "none" THEN signs + 1 ELSE signs
  /\ last' = [op |-> "signOrigin", err |-> r.err, pre |-> Snapshot, step |-> r.step, prev |-> NoStep]

\* signOrigin marking the origin done once it has signed
signOrigin_marksOriginDone(privateKey) ==
  /\ signs < MaxSigns
  /\ signOriginApply(signOriginResult(privateKey))
  /\ originDone' = (originDone \/ signOriginResult(privateKey).err = "none")
  /\ UNCHANGED <<authType, checkOversign, checkOverlap>>

signOrigin(privateKey) ==
  /\ signs < MaxSigns
  /\ signOriginApply(signOriginResult(privateKey))
  /\ UNCHANGED <<authType, originDone, checkOversign, checkOverlap>>

\* SpendingCondition.nextSignature called again, by the caller, with the
\* arguments the step of the signOrigin call just made was given
CallNextSignature ==
  /\ last.op = "signOrigin"
  /\ last.step.called
  /\ last' = [op |-> "nextSignature", err |-> "none", pre |-> Snapshot,
              step |-> StepOf(last.step.curSigHash, last.step.authType, last.step.feeRate,
                              last.step.nonce, last.step.key),
              prev |-> last.step]
  /\ UNCHANGED <<cond, authType, sigHash, originDone, checkOversign, checkOverlap, signs>>

\* the class declares no signSponsor: the call is a TypeError
signSponsor(privateKey) ==
  /\ last' = [op |-> "signSponsor", err |-> ErrTypeError, pre |-> Snapshot, step |-> NoStep, prev |-> NoStep]
  /\ UNCHANGED <<cond, authType, sigHash, originDone, checkOversign, checkOverlap, signs>>

\* the class declares no markOriginDone: the call is a TypeError
markOriginDone ==
  /\ last' = [op |-> "markOriginDone", err |-> ErrTypeError, pre |-> Snapshot, step |-> NoStep, prev |-> NoStep]
  /\ UNCHANGED <<cond, authType, sigHash, originDone, checkOversign, checkOverlap, signs>>

\* the caller assigns one of the public fields of the session
AssignField ==
  /\ \E f \in {"originDone", "checkOversign", "checkOverlap"}, v \in BOOLEAN :
       /\ originDone' = IF f = "originDone" THEN v ELSE originDone
       /\ checkOversign' = IF f = "checkOversign" THEN v ELSE checkOversign
       /\ checkOverlap' = IF f = "checkOverlap" THEN v ELSE checkOverlap
       /\ <<originDone', checkOversign', checkOverlap'>> # <<originDone, checkOversign, checkOverlap>>
  /\ last' = [op |-> "assign", err |-> "none", pre |-> Snapshot, step |-> NoStep, prev |-> NoStep]
  /\ UNCHANGED <<cond, authType, sigHash, signs>>

Next ==
  \/ \E k \in PrivateKeys : signOrigin(k)
  \/ \E k \in PrivateKeys : signSponsor(k)
  \/ markOriginDone
  \/ AssignField
  \/ CallNextSignature

Spec == Init /\ [][Next]_vars

TypeOK ==
  /\ signs \in 0..MaxSigns
  /\ originDone \in BOOLEAN

\* ------------------------------------------------------------------------
\* Claims about the signing session (specification Spec)
\* ------------------------------------------------------------------------
ErrNotReady == "NotReadyError"

OverlapFires(pre) == pre.checkOverlap /\ pre.originDone

\* C1: over a SingleSigSpendingCondition with signaturesRequired = 1,
\* numSignatures() is 0 before any signing and 1 after a successful
\* signOrigin, and with checkOversign = true a signOrigin call made on the
\* already signed condition fails with the oversign error
C1_SingleSigOversign ==
  (cond.class = "SingleSigSpendingCondition" /\ cond.signaturesRequired = 1) =>
    /\ signs = 0 => numSignatures(cond) = 0
    /\ (last.op = "signOrigin" /\ last.err = "none") => numSignatures(cond) = 1
    /\ (last.op = "signOrigin" /\ last.pre.checkOversign /\ last.pre.numSigs = 1
          /\ ~OverlapFires(last.pre)) => last.err = ErrOversign

C1_Witness ==
  /\ cond.class = "SingleSigSpendingCondition"
  /\ signs = 1
  /\ numSignatures(cond) = 1
  /\ last.op = "signOrigin"
  /\ last.pre.checkOversign
  /\ last.err = ErrOversign

\* C2: a signOrigin call made while checkOverlap and originDone are both true
\* fails with the overlap error, whatever numSignatures() is
C2_OverlapGuard ==
  (last.op = "signOrigin" /\ last.pre.checkOverlap /\ last.pre.originDone) =>
     last.err = ErrOverlap

C2_Witness ==
  /\ last.op = "signOrigin"
  /\ last.err = ErrOverlap
  /\ last.pre.numSigs = 1
  /\ last.pre.checkOversign

\* C3: between calls every spending condition has
\* 0 <= numSignatures() <= signaturesRequired, and a successful signOrigin
\* raises numSignatures() by at most one
C3_CountWithinThreshold ==
  /\ JsGe(numSignatures(cond), 0)
  /\ JsGe(cond.signaturesRequired, numSignatures(cond))
  /\ (last.op = "signOrigin" /\ last.err = "none") =>
        numSignatures(cond) - last.pre.numSigs <= 1

\* C4: on a Sponsored authorization signSponsor fails with NotReadyError while
\* the origin has fewer than signaturesRequired signatures, and otherwise
\* signs the sponsor condition from the sighash the origin's last step left
C4_SignSponsor ==
  (last.op = "signSponsor" /\ authType = AuthType_Sponsored) =>
     IF ~JsGe(last.pre.numSigs, cond.signaturesRequired)
     THEN last.err = ErrNotReady
     ELSE /\ last.err = "none"
          /\ last.step.called
          /\ last.step.curSigHash = last.pre.sigHash

\* C5: originDone becomes true by markOriginDone() or by a successful
\* signSponsor, and with checkOverlap = true no signOrigin call succeeds once
\* originDone is true
C5_SessionOrder ==
  /\ last.op = "markOriginDone" => originDone
  /\ (last.op = "signSponsor" /\ last.err = "none") => originDone
  /\ (last.op = "signOrigin" /\ last.pre.checkOverlap /\ last.pre.originDone) =>
        last.err # "none"

\* C8: every nextSignature call returns nextSig = sign(presign(inputs)) and
\* nextSigHash = postsign(that presign hash, the key's encoding, nextSig), and
\* a call repeated with the same arguments in a later session state returns
\* the same result
C8_StepDeterministic ==
  /\ (last.step.called /\ last.step.err = "none") =>
       LET h == sha512_256(PreSignMaterial(last.step.curSigHash, last.step.authType,
                                           last.step.feeRate, last.step.nonce))
       IN /\ last.step.nextSig = sign(last.step.key, h)
          /\ last.step.nextSigHash =
               sha512_256(PostSignMaterial(h, last.step.key, last.step.nextSig))
  /\ last.op = "nextSignature" => last.step = last.prev

C8_Witness ==
  /\ last.op = "nextSignature"
  /\ last.step.err = "none"
  /\ last.step.curSigHash # sigHash
  /\ cond.signature = last.step.nextSig

\* ------------------------------------------------------------------------
\* The hash functions and the codec applied to conditions a session can hold
\* (specification SpecCodec)
\* ------------------------------------------------------------------------
CodecNonceFeePairs == NonceFeePairs \cup { <<Big0, BigPow64>> }

\* c after signOrigin(key) of a new session, or c when that call fails
Signed(auth, c, key) == signNextOrigin(auth, c, signBegin(auth, c), key).cond

InitCodec ==
  \E class \in ConditionClasses, mode \in AddressHashModes, pubKey \in PrivateKeys,
     nf \in CodecNonceFeePairs, auth \in AuthTypes :
       LET c == NewCondition(class, mode, pubKey, nf[1], nf[2])
       IN /\ cond \in {c} \cup { Signed(auth, c, k) : k \in PrivateKeys }
          /\ authType = auth
          /\ sigHash = signBegin(auth, c)
          /\ originDone = FALSE
          /\ checkOversign = TRUE
          /\ checkOverlap = TRUE
          /\ signs = 0
          /\ last = [op |-> "new", err |-> "none"]

\* each behaviour applies one function to the condition drawn by InitCodec,
\* or serialize and then deserialize

\* hashes a caller can pass: the session's, one byte shorter, one byte longer
CurSigHashes == { sigHash, SubSeq(sigHash, 1, Len(sigHash) - 2), sigHash \o <<0, 0>> }

\* the values new MessageSignature(...) and MessageSignature.empty() produce
SignatureArguments ==
  { UndefinedStr, <<>>, cond.signature,
    sign(1, sigHash), sign(2, sigHash) \o <<5>>, sign(1, sigHash) \o <<0, 0>> }

MessageSignatures ==
  { MessageSignature_new(a).signature :
      a \in { x \in SignatureArguments : MessageSignature_new(x).err = "none" } }
  \cup { MessageSignature_empty }

CallMakeSigHashPreSign ==
  /\ last.op = "new"
  /\ \E cur \in CurSigHashes :
       last' = [ op |-> "makeSigHashPreSign",
                 err |-> makeSigHashPreSign(cur, authType, cond.feeRate, cond.nonce).err,
                 material |-> PreSignMaterial(cur, authType, cond.feeRate, cond.nonce),
                 hash |-> makeSigHashPreSign(cur, authType, cond.feeRate, cond.nonce).hash ]
  /\ UNCHANGED <<cond, authType, sigHash, originDone, checkOversign, checkOverlap, signs>>

CallMakeSigHashPostSign ==
  /\ last.op = "new"
  /\ \E cur \in CurSigHashes, key \in PrivateKeys, sig \in MessageSignatures :
       last' = [ op |-> "makeSigHashPostSign",
                 err |-> makeSigHashPostSign(cur, key, sig).err,
                 material |-> PostSignMaterial(cur, key, sig),
                 signature |-> sig,
                 hash |-> makeSigHashPostSign(cur, key, sig).hash ]
  /\ UNCHANGED <<cond, authType, sigHash, originDone, checkOversign, checkOverlap, signs>>

Serialize ==
  /\ last.op = "new"
  /\ last' = [ op |-> "serialize", err |-> "none", buffer |-> serialize(cond) ]
  /\ UNCHANGED <<cond, authType, sigHash, originDone, checkOversign, checkOverlap, signs>>

\* first bytes that are no AddressHashMode
UnknownModes == { <<0, 4>>, <<15, 15>> }

\* decode what serialize wrote, as written or with another first byte
Deserialize ==
  /\ last.op = "serialize"
  /\ \E first \in {read(last.buffer, 0, 1)} \cup UnknownModes :
       LET buffer == first \o SubSeq(last.buffer, 3, Len(last.buffer))
           r == deserialize(buffer)
       IN last' = [ op |-> "deserialize", err |-> r.err, buffer |-> buffer,
                    index |-> r.index, cond |-> r.cond ]
  /\ UNCHANGED <<cond, authType, sigHash, originDone, checkOversign, checkOverlap, signs>>

\* new MessageSignature(a), with a = undefined for the call without argument
NewMessageSignature ==
  /\ last.op = "new"
  /\ \E a \in SignatureArguments :
       last' = [ op |-> "MessageSignature", arg |-> a,
                 err |-> MessageSignature_new(a).err,
                 signature |-> MessageSignature_new(a).signature ]
  /\ UNCHANGED <<cond, authType, sigHash, originDone, checkOversign, checkOverlap, signs>>

SerializeAuthorization ==
  /\ last.op = "new"
  /\ last' = [ op |-> "Authorization.serialize", err |-> "none",
               buffer |-> Authorization_serialize(authType, cond) ]
  /\ UNCHANGED <<cond, authType, sigHash, originDone, checkOversign, checkOverlap, signs>>

DeserializeAuthorization ==
  /\ last.op = "Authorization.serialize"
  /\ LET r == Authorization_deserialize(last.buffer)
     IN last' = [ op |-> "Authorization.deserialize", err |-> r.err, buffer |-> last.buffer,
                  authType |-> r.authType, hasCondition |-> r.hasCondition,
                  index |-> r.index ]
  /\ UNCHANGED <<cond, authType, sigHash, originDone, checkOversign, checkOverlap, signs>>

NextCodec ==
  \/ CallMakeSigHashPreSign
  \/ CallMakeSigHashPostSign
  \/ Serialize
  \/ Deserialize
  \/ SerializeAuthorization
  \/ DeserializeAuthorization
  \/ NewMessageSignature

SpecCodec == InitCodec /\ [][NextCodec]_vars

\* ------------------------------------------------------------------------
\* Claims about the hash chain and the codec
\* ------------------------------------------------------------------------
ErrUnknownAddressHashMode == "UnknownAddressHashMode"

\* C6: makeSigHashPreSign hashes exactly 49 bytes (98 hex characters) and
\* fails with the length error whenever the material is longer or shorter
C6_PreSignExactLength ==
  last.op = "makeSigHashPreSign" =>
    /\ last.err = "none" => Len(last.material) = 2 * 49
    /\ Len(last.material) # 2 * 49 => last.err = ErrLength

\* C7: makeSigHashPostSign hashes exactly 98 bytes (196 hex characters) and
\* fails with the length error whenever the material is not 98 bytes long,
\* for every MessageSignature value
C7_PostSignExactLength ==
  last.op = "makeSigHashPostSign" =>
    /\ last.err = "none" => Len(last.material) = 2 * 98
    /\ Len(last.material) # 2 * 98 => last.err = ErrLength

\* C9: deserialize(serialize(c)) equals c field for field
C9_RoundTrip ==
  (last.op = "deserialize" /\ last.buffer = serialize(cond)) =>
    /\ last.err = "none"
    /\ last.cond.addressHashMode = cond.addressHashMode
    /\ last.cond.signerAddress = cond.signerAddress
    /\ last.cond.nonce = cond.nonce
    /\ last.cond.feeRate = cond.feeRate
    /\ last.cond.pubKeyEncoding = cond.pubKeyEncoding
    /\ last.cond.signaturesRequired = cond.signaturesRequired
    /\ last.cond.signature = cond.signature

\* C10: a first byte that is no addressHashMode makes deserialize fail with
\* UnknownAddressHashMode, the reader standing right after that byte
C10_UnknownModeRejected ==
  (last.op = "deserialize" /\ read(last.buffer, 0, 1) \notin AddressHashModes) =>
    /\ last.err = ErrUnknownAddressHashMode
    /\ last.index = 1

\* C11: serializing or deserializing a P2SH or P2WSH condition or a Sponsored
\* authorization raises Unimplemented, so no encoding or object without the
\* signature slots or the sponsor condition is ever returned
C11_UnimplementedRaised ==
  /\ (last.op = "serialize" /\ ~singleSig(cond)) => last.err = ErrUnimplemented
  /\ (last.op = "deserialize"
        /\ read(last.buffer, 0, 1) \in {SerializeP2SH, SerializeP2WSH}) =>
       last.err = ErrUnimplemented
  /\ (last.op = "Authorization.serialize"
        /\ (authType = AuthType_Sponsored \/ ~singleSig(cond))) =>
       last.err = ErrUnimplemented
  /\ (last.op = "Authorization.deserialize" /\ last.authType = AuthType_Sponsored) =>
       last.err = ErrUnimplemented

\* a string of exactly 65 bytes in hex
Holds65(v) ==
  /\ v # UndefinedStr
  /\ Len(v) = 2 * RECOVERABLE_ECDSA_SIG_LENGTH_BYTES
  /\ \A i \in 1..Len(v) : v[i] <= 15

\* C12: every MessageSignature that exists (constructor with or without an
\* argument, empty(), deserialize) holds exactly 65 bytes, and constructing
\* one from a value that is not 65 bytes long fails with the invalid-signature
\* error
C12_SignatureIs65Bytes ==
  /\ Holds65(MessageSignature_empty)
  /\ (last.op = "MessageSignature" /\ last.err = "none") => Holds65(last.signature)
  /\ (last.op = "MessageSignature" /\ last.arg # UndefinedStr /\ ~Holds65(last.arg)) =>
       last.err = ErrSignature
  /\ (last.op = "deserialize" /\ singleSig(last.cond)) => Holds65(last.cond.signature)

\* ------------------------------------------------------------------------
\* Further claims about the signing session (specification Spec)
\* ------------------------------------------------------------------------
\* a BigInt below 2^64: at most four 16-bit limbs
FitsU64(n) == Len(n) <= 4

\* C13: a nonce or feeRate outside 0..2^64-1 is rejected at construction, so
\* no constructed condition holds one and no signing step is given one
C13_RangeCheckedAtConstruction ==
  /\ FitsU64(cond.nonce)
  /\ FitsU64(cond.feeRate)
  /\ last.step.called => (FitsU64(last.step.nonce) /\ FitsU64(last.step.feeRate))

\* C14: for every condition of a single-signature mode, of whatever class,
\* numSignatures() is 1 exactly when the signature is not the sentinel, and
\* the oversign guard rejects signOrigin on every such signed condition
C14_SingleSigModeCount ==
  singleSig(cond) =>
    /\ (numSignatures(cond) = 1) <=> (cond.signature # MessageSignature_empty)
    /\ (last.op = "signOrigin" /\ last.pre.checkOversign
          /\ last.pre.signature # MessageSignature_empty /\ ~OverlapFires(last.pre)) =>
         last.err = ErrOversign

\* C15: sigHash starts as signBegin(); a successful signOrigin gives the step
\* the sigHash the previous successful call left and stores the hash the step
\* returns; sigHash changes at no other time
C15_ChainStep ==
  IF last'.op = "signOrigin" /\ last'.err = "none"
  THEN /\ last'.step.called
       /\ last'.step.curSigHash = sigHash
       /\ sigHash' = last'.step.nextSigHash
  ELSE sigHash' = sigHash

C15_SigHashChain ==
  /\ [](signs = 0 => sigHash = signBegin(authType, cond))
  /\ [][C15_ChainStep]_vars

C15_Witness ==
  /\ signs = 2
  /\ last.op = "signOrigin"
  /\ last.err = "none"
  /\ last.step.curSigHash # signBegin(authType, cond)
  /\ sigHash = last.step.nextSigHash

\* C16: a signOrigin call that fails leaves sigHash, originDone and the
\* origin condition's signature and numSignatures() as they were
C16_FailureChangesNothing ==
  (last.op = "signOrigin" /\ last.err # "none") =>
    /\ sigHash = last.pre.sigHash
    /\ originDone = last.pre.originDone
    /\ cond.signature = last.pre.signature
    /\ numSignatures(cond) = last.pre.numSigs

C16_Witness ==
  /\ last.op = "signOrigin"
  /\ last.step.called
  /\ last.err = ErrLength
  /\ sigHash = last.pre.sigHash

\* C18: a new TransactionSigner has originDone = false, checkOversign = true
\* and checkOverlap = true, and no signOrigin call changes originDone,
\* checkOversign, checkOverlap or the transaction the session is bound to
C18_FrameStep ==
  last'.op = "signOrigin" =>
    /\ originDone' = originDone
    /\ checkOversign' = checkOversign
    /\ checkOverlap' = checkOverlap
    /\ authType' = authType
    /\ [cond' EXCEPT !.signature = cond.signature] = cond

C18_SignerFrame ==
  /\ [](last.op = "new" => (~originDone /\ checkOversign /\ checkOverlap))
  /\ [][C18_FrameStep]_vars

C18_Witness ==
  /\ last.op = "signOrigin"
  /\ last.err = "none"
  /\ cond.signature # last.pre.signature
  /\ ~originDone
  /\ checkOversign
  /\ checkOverlap

\* C19: the guards of signOrigin are independent: with checkOverlap = false
\* the oversign guard still rejects once numSignatures() >= signaturesRequired,
\* originDone or not; with checkOversign = false the overlap guard still
\* rejects once originDone; when both would fire the overlap error is reported
C19_GuardsIndependent ==
  last.op = "signOrigin" =>
    /\ (~last.pre.checkOverlap /\ last.pre.checkOversign
          /\ JsGe(last.pre.numSigs, cond.signaturesRequired)) => last.err = ErrOversign
    /\ (last.pre.checkOverlap /\ ~last.pre.checkOversign /\ last.pre.originDone) =>
         last.err = ErrOverlap
    /\ (OverlapFires(last.pre) /\ last.pre.checkOversign
          /\ JsGe(last.pre.numSigs, cond.signaturesRequired)) => last.err = ErrOverlap

C19_Witness ==
  /\ last.op = "signOrigin"
  /\ ~last.pre.checkOverlap
  /\ last.pre.originDone
  /\ last.pre.checkOversign
  /\ last.err = ErrOversign

\* ------------------------------------------------------------------------
\* Further claims about the codec (specification SpecCodec)
\* ------------------------------------------------------------------------
\* C17: for a single-key-mode condition with nonce and feeRate below 2^64,
\* serialize returns 103 bytes: addressHashMode(1), signerAddress(20), nonce
\* big-endian (8), feeRate big-endian (8), pubKeyEncoding(1), signature(65),
\* nonce and feeRate encoded as in the material makeSigHashPreSign hashes
C17_SerializeLayout ==
  (last.op = "serialize" /\ singleSig(cond)
     /\ FitsU64(cond.nonce) /\ FitsU64(cond.feeRate)) =>
    LET material == PreSignMaterial(sigHash, authType, cond.feeRate, cond.nonce)
    IN /\ Len(last.buffer) = 2 * 103
       /\ read(last.buffer, 0, 1) = cond.addressHashMode
       /\ read(last.buffer, 1, 20) = cond.signerAddress
       /\ read(last.buffer, 21, 8) = SubSeq(material, 83, 98)
       /\ hexStringToBigInt(read(last.buffer, 21, 8)) = cond.nonce
       /\ read(last.buffer, 29, 8) = SubSeq(material, 67, 82)
       /\ hexStringToBigInt(read(last.buffer, 29, 8)) = cond.feeRate
       /\ read(last.buffer, 37, 1) = cond.pubKeyEncoding
       /\ read(last.buffer, 38, 65) = cond.signature

C17_Witness ==
  /\ last.op = "serialize"
  /\ singleSig(cond)
  /\ cond.nonce = Big0
  /\ cond.feeRate = Big180
  /\ cond.signature # MessageSignature_empty
  /\ Len(last.buffer) = 2 * 103

====
